---- MODULE Spec2Model ----
(***************************************************************************)
(* State-machine model of the technical-article refactor agent:            *)
(*   technical_writer_agent.py  the command-line entry point, the agent's  *)
(*                              constructor, _call_llm and process         *)
(*   db.py                      ConnectionPool, get_db_cursor and          *)
(*                              OptimizationLogRepository                  *)
(* One operating-system process is modelled, from its start.  It is either *)
(* the command-line program (mode "cli", SpecCli) or a program that        *)
(* imports db.py and calls its public operations one after another (mode   *)
(* "lib", SpecLib).  The table of the record store and the file system     *)
(* outlive a process, so the process may find rows that earlier runs       *)
(* inserted and an output file that an earlier run wrote; the connection   *)
(* pool does not outlive it.                                               *)
(*                                                                         *)
(* Texts are short strings.  A file's content and a formatted text are     *)
(* sequences of chunks (the literal pieces of the f-string and the values  *)
(* substituted into it, in order), so that a partially written file is a   *)
(* proper prefix of the chunks.                                             *)
(***************************************************************************)
EXTENDS Integers, Sequences, FiniteSets, TLC

\* ------------------------------------------------------------------ bounds
MaxOps == 3         \* public db.py operations a "lib" process calls
MaxPriorRows == 1   \* rows earlier runs left in the table

\* ------------------------------------------------------------ input values
Texts == {"", "T"}                       \* what a file or the provider can hold
Configs == {"None", "empty", "cfgA"}     \* arguments of ConnectionPool.initialize
Limits == {0, 1, 100}                    \* find_all's limit
Offsets == {0, 1}                        \* find_all's offset

\* --------------------------------------------------------------- constants
None == "None"
ANALYST_SYSTEM_PROMPT == "ANALYST_SYSTEM_PROMPT"
ANALYST_USER_PROMPT_TEMPLATE == "ANALYST_USER_PROMPT_TEMPLATE"
ARCHITECT_SYSTEM_PROMPT == "ARCHITECT_SYSTEM_PROMPT"
ARCHITECT_USER_PROMPT_TEMPLATE == "ARCHITECT_USER_PROMPT_TEMPLATE"
WRITER_SYSTEM_PROMPT == "WRITER_SYSTEM_PROMPT"
WRITER_USER_PROMPT_TEMPLATE == "WRITER_USER_PROMPT_TEMPLATE"
TABLE_NAME == "article_optimization_logs"

\* The headings and the rule process() puts around the three stage results
\* (the source's headings are in Chinese; they are given here in English).
Heading1 == "# Step 1: Diagnostic Report (Analyst)"
Heading2 == "# Step 2: Refactor Blueprint (Architect)"
Heading3 == "# Step 3: Final Article (Article)"
Rule == "---"

\* DatabaseConfig.get_config(): the configuration read from the environment.
get_config == "env"

\* ----------------------------------------------------------------- helpers
\* str.format on a template: the template with the values given for its
\* named placeholders.
Format(template, values) == [template |-> template, values |-> values]

\* f"System Prompt:\n{system}\n\nUser Prompt:\n{user}"
FullPrompt(system_prompt, user_prompt) ==
    <<"System Prompt:", system_prompt, "User Prompt:", user_prompt>>

\* The three pieces process() appends to process_log, one per stage.
Section1(analysis) == <<Heading1, analysis, Rule>>
Section2(blueprint) == <<Heading2, blueprint, Rule>>
Section3(rewritten_article) == <<Heading3, rewritten_article>>

Reverse(s) == [i \in 1..Len(s) |-> s[Len(s) + 1 - i]]

\* LIMIT l OFFSET o of a result list.
LimitOffset(s, l, o) ==
    LET from == o + 1
        to == IF o + l < Len(s) THEN o + l ELSE Len(s)
    IN  IF from > to THEN <<>> ELSE SubSeq(s, from, to)

VARIABLES
    mode,         \* "cli" | "lib": what this process is
    pc,           \* where the process is
    argv,         \* len(sys.argv)
    api_key,      \* TRUE iff GEMINI_API_KEY is set
    input,        \* the input path: [state, content]
    output,       \* the output path: [exists, content]
    frame,        \* process()'s local variables
    calls,        \* the _call_llm calls of this process, in order
    exit_status,  \* -1 while the process runs, then its exit status
    warnings,     \* the warnings this process printed
    touched,      \* TRUE iff this process opened the output path for writing
    instance,     \* ConnectionPool._instance: 0 (None) or a pool of `pools`
    config,       \* ConnectionPool._config
    pools,        \* the pools this process constructed: [config, closed, used]
    db,           \* the record store: [table, rows, next_id, clock]
    cur,          \* the get_db_cursor operation in progress or just finished
    opsLeft,      \* operations a "lib" process may still call
    hist          \* history: [count0, inserted, poolCalls, attempts, output0]

vars == <<mode, pc, argv, api_key, input, output, frame, calls,
          exit_status, warnings, touched, instance, config, pools, db, cur,
          opsLeft, hist>>

procVars == <<argv, api_key, frame, calls, exit_status, warnings, touched>>
fileVars == <<input, output>>
poolVars == <<instance, config, pools>>

\* ------------------------------------------------------------------- Init
NoFrame ==
    [article_content |-> None, process_log |-> <<>>,
     analyst_user_prompt |-> None, analysis |-> None,
     architect_user_prompt |-> None, blueprint |-> None,
     writer_user_prompt |-> None, rewritten_article |-> None,
     record_id |-> 0]     \* 0: no record_id yet (identifiers start at 1)

IdleCursor ==
    [pc |-> "idle", op |-> None, caller |-> None, arg |-> None,
     pending |-> [kind |-> "none"], error |-> FALSE, bodyError |-> FALSE,
     result |-> None, events |-> <<>>]

\* The row an earlier run of the command-line program on an input file
\* holding `text` left in the table, every stage having answered "T".
PriorRow(i, text) ==
    LET u1 == Format(ANALYST_USER_PROMPT_TEMPLATE, [article_content |-> text])
        u2 == Format(ARCHITECT_USER_PROMPT_TEMPLATE,
                     [article_content |-> text, analysis_content |-> "T"])
        u3 == Format(WRITER_USER_PROMPT_TEMPLATE,
                     [article_content |-> text, analysis_content |-> "T",
                      blueprint_content |-> "T"])
    IN  [id |-> i, created_at |-> i, original_content |-> text,
         analyst_prompt |-> FullPrompt(ANALYST_SYSTEM_PROMPT, u1),
         analyst_result |-> "T",
         architect_prompt |-> FullPrompt(ARCHITECT_SYSTEM_PROMPT, u2),
         architect_result |-> "T",
         writer_prompt |-> FullPrompt(WRITER_SYSTEM_PROMPT, u3),
         writer_result |-> "T",
         evaluation |-> None]

\* The state a process starts in.
Start(m) ==
    /\ mode = m
    /\ pc = "import"
    /\ argv \in IF m = "cli" THEN {1, 2, 3, 4} ELSE {1}
    /\ api_key \in IF m = "cli" THEN BOOLEAN ELSE {FALSE}
    /\ input \in IF m = "cli"
                 THEN [state : {"missing", "unreadable"}, content : {""}]
                      \cup [state : {"readable"}, content : Texts]
                 ELSE {[state |-> "missing", content |-> ""]}
    /\ output \in IF m = "cli"
                  THEN {[exists |-> FALSE, content |-> <<>>],
                        [exists |-> TRUE, content |-> <<"old">>]}
                  ELSE {[exists |-> FALSE, content |-> <<>>]}
    /\ frame = NoFrame
    /\ calls = <<>>
    /\ exit_status = -1
    /\ warnings = {}
    /\ touched = FALSE
    /\ instance = 0
    /\ config = None
    /\ pools = <<>>
    /\ \E n \in 0..MaxPriorRows, t \in BOOLEAN :
          /\ (n > 0) => t
          /\ db = [table |-> t,
                   rows |-> [i \in 1..n |-> PriorRow(i, input.content)],
                   next_id |-> n + 1, clock |-> n + 1]
          /\ hist = [count0 |-> n, inserted |-> 0, poolCalls |-> 0,
                     attempts |-> 0, output0 |-> output]
    /\ cur = IdleCursor
    /\ opsLeft = IF m = "cli" THEN 0 ELSE MaxOps

InitCli == Start("cli")
InitLib == Start("lib")

\* --------------------------------------------------------- ConnectionPool
\* Mutant: initialize without the `if cls._instance is None` guard.
initialize_NoGuard(cfg, constructs) ==
    LET c == IF cfg \in {None, "empty"} THEN get_config ELSE cfg
    IN  IF constructs
        THEN [instance |-> Len(pools) + 1, config |-> c,
              pools |-> Append(pools, [config |-> c, closed |-> FALSE,
                                       used |-> 0]),
              attempted |-> TRUE, raised |-> FALSE]
        ELSE [instance |-> instance, config |-> c, pools |-> pools,
              attempted |-> TRUE, raised |-> TRUE]

\* ConnectionPool.initialize(config), `constructs` saying whether
\* pool.ThreadedConnectionPool(...) returns or raises: the class attributes
\* after the call, whether the constructor was called, whether the call raised.
initialize(cfg, constructs) ==
    IF instance = 0
    THEN LET c == IF cfg \in {None, "empty"} THEN get_config ELSE cfg
         IN  IF constructs
             THEN [instance |-> Len(pools) + 1, config |-> c,
                   pools |-> Append(pools, [config |-> c, closed |-> FALSE,
                                            used |-> 0]),
                   attempted |-> TRUE, raised |-> FALSE]
             ELSE [instance |-> 0, config |-> c, pools |-> pools,
                   attempted |-> TRUE, raised |-> TRUE]
    ELSE [instance |-> instance, config |-> config, pools |-> pools,
          attempted |-> FALSE, raised |-> FALSE]

\* ConnectionPool.get_pool()
get_pool(constructs) ==
    IF instance = 0
    THEN initialize(None, constructs)
    ELSE [instance |-> instance, config |-> config, pools |-> pools,
          attempted |-> FALSE, raised |-> FALSE]

\* The class attributes and the history after a call that gave r.
PoolCall(r) ==
    /\ instance' = r.instance
    /\ config' = r.config
    /\ pools' = r.pools
    /\ hist' = [hist EXCEPT !.poolCalls = @ + 1,
                            !.attempts = @ + (IF r.attempted THEN 1 ELSE 0)]

\* ConnectionPool.close_all()
close_all ==
    /\ instance' = 0
    /\ pools' = IF instance # 0
                THEN [pools EXCEPT ![instance].closed = TRUE,
                                   ![instance].used = 0]
                ELSE pools
    /\ UNCHANGED config

\* ---------------------------------------------------------- get_db_cursor
\* How the statements of an operation's body end: all accepted ("ok"), the
\* first one rejected ("rejected"), or the first accepted and a later step
\* of the body raising ("late": CREATE INDEX, fetchone, result["id"]).
Outcomes == {"ok", "rejected", "late"}

\* What the body of `with get_db_cursor() as cur:` does in operation op:
\* whether it raises, what its transaction holds and what it returns.
Body(op, arg, outcome) ==
    LET nothing == [kind |-> "none"]
        rejected == [error |-> TRUE, pending |-> nothing, result |-> None,
                     executed |-> FALSE]
        done(pending, result) ==
            [error |-> outcome = "late", pending |-> pending,
             result |-> IF outcome = "late" THEN None ELSE result,
             executed |-> TRUE]
    IN  CASE op = "init_table" ->
                IF outcome = "rejected" THEN rejected
                ELSE done([kind |-> "table"], None)
          [] op = "insert" ->
                IF outcome = "rejected" \/ ~db.table THEN rejected
                ELSE done([kind |-> "row",
                           row |-> [arg EXCEPT !.id = db.next_id,
                                               !.created_at = db.clock]],
                          db.next_id)
          [] op = "find_by_id" ->
                IF outcome = "rejected" \/ ~db.table THEN rejected
                ELSE LET hit == {i \in 1..Len(db.rows) : db.rows[i].id = arg}
                     IN  done(nothing,
                              IF hit = {} THEN None
                              ELSE db.rows[CHOOSE i \in hit : TRUE])
          [] op = "find_all" ->
                IF outcome = "rejected" \/ ~db.table THEN rejected
                ELSE done(nothing,
                          LimitOffset(Reverse(db.rows), arg[1], arg[2]))
          [] op = "count" ->
                IF outcome = "rejected" \/ ~db.table THEN rejected
                ELSE done(nothing, Len(db.rows))

\* A caller enters `with get_db_cursor() as cur:` for operation op.
Enter(op, caller, arg) ==
    [IdleCursor EXCEPT !.pc = "getpool", !.op = op, !.caller = caller,
                       !.arg = arg]

\* pool = ConnectionPool.get_pool()
CursorGetPool ==
    /\ cur.pc = "getpool"
    /\ \E constructs \in BOOLEAN :
          LET r == get_pool(constructs)
          IN  /\ PoolCall(r)
              /\ cur' = IF r.raised
                        THEN [cur EXCEPT !.pc = "done", !.error = TRUE]
                        ELSE [cur EXCEPT !.pc = "getconn"]
    /\ UNCHANGED <<mode, pc, procVars, fileVars, db, opsLeft>>

\* conn = pool.getconn()
CursorGetConn ==
    /\ cur.pc = "getconn"
    /\ \/ /\ pools' = [pools EXCEPT ![instance].used = @ + 1]
          /\ cur' = [cur EXCEPT !.pc = "body",
                                !.events = Append(@, "getconn")]
       \/ /\ cur' = [cur EXCEPT !.pc = "done", !.error = TRUE]
          /\ UNCHANGED pools
    /\ UNCHANGED <<mode, pc, procVars, fileVars, instance, config, db,
                   opsLeft, hist>>

\* with conn.cursor(...) as cur: yield cur    (the operation's statements)
CursorBody ==
    /\ cur.pc = "body"
    /\ \E outcome \in Outcomes :
          LET b == Body(cur.op, cur.arg, outcome)
          IN  /\ cur' = [cur EXCEPT !.pc = IF b.error THEN "rollback"
                                           ELSE "commit",
                                    !.error = b.error,
                                    !.bodyError = b.error,
                                    !.pending = b.pending,
                                    !.result = b.result]
              /\ db' = IF cur.op = "insert" /\ b.executed
                       THEN [db EXCEPT !.next_id = @ + 1, !.clock = @ + 1]
                       ELSE db
    /\ UNCHANGED <<mode, pc, procVars, fileVars, poolVars, opsLeft,
                   hist>>

\* conn.commit()
CursorCommit ==
    /\ cur.pc = "commit"
    /\ \/ /\ db' = CASE cur.pending.kind = "none" -> db
                     [] cur.pending.kind = "table" ->
                            [db EXCEPT !.table = TRUE]
                     [] cur.pending.kind = "row" ->
                            [db EXCEPT !.rows = Append(@, cur.pending.row)]
          /\ cur' = [cur EXCEPT !.pc = "putconn",
                                !.pending = [kind |-> "none"],
                                !.events = Append(@, "commit")]
       \/ /\ cur' = [cur EXCEPT !.pc = "rollback", !.error = TRUE,
                                !.events = Append(@, "commit")]
          /\ UNCHANGED db
    /\ UNCHANGED <<mode, pc, procVars, fileVars, poolVars, opsLeft,
                   hist>>

\* Mutant: the exception leaves get_db_cursor without the finally clause.
CursorRollback_NoFinally ==
    /\ cur.pc = "rollback"
    /\ cur' = [cur EXCEPT !.pc = "done",
                          !.pending = [kind |-> "none"],
                          !.result = None,
                          !.events = Append(@, "rollback")]
    /\ UNCHANGED <<mode, pc, procVars, fileVars, poolVars, db, opsLeft,
                   hist>>

\* Mutant: the transaction of a failed body is committed, not rolled back.
CursorRollback_Commits ==
    /\ cur.pc = "rollback"
    /\ db' = IF cur.pending.kind = "row"
             THEN [db EXCEPT !.rows = Append(@, cur.pending.row)]
             ELSE db
    /\ cur' = [cur EXCEPT !.pc = "putconn",
                          !.pending = [kind |-> "none"],
                          !.result = None,
                          !.events = Append(@, "rollback")]
    /\ UNCHANGED <<mode, pc, procVars, fileVars, poolVars, opsLeft, hist>>

\* except Exception: conn.rollback(); raise
\* The transaction is discarded; whether rollback returns or raises itself,
\* the finally clause runs next and an exception leaves the operation.
CursorRollback ==
    /\ cur.pc = "rollback"
    /\ cur' = [cur EXCEPT !.pc = "putconn",
                          !.pending = [kind |-> "none"],
                          !.result = None,
                          !.events = Append(@, "rollback")]
    /\ UNCHANGED <<mode, pc, procVars, fileVars, poolVars, db, opsLeft,
                   hist>>

\* finally: pool.putconn(conn)
CursorPutConn ==
    /\ cur.pc = "putconn"
    /\ pools' = [pools EXCEPT ![instance].used = @ - 1]
    /\ cur' = [cur EXCEPT !.pc = "done", !.events = Append(@, "putconn")]
    /\ UNCHANGED <<mode, pc, procVars, fileVars, instance, config, db,
                   opsLeft, hist>>

\* The operation's caller has its result (or its exception).
Returned(caller) == cur.pc = "done" /\ cur.caller = caller

\* ------------------------------------------------- db.py, module import
\* try: OptimizationLogRepository.init_table()
ImportDb ==
    /\ pc = "import"
    /\ cur.pc = "idle"
    /\ cur' = Enter("init_table", "import", None)
    /\ pc' = "importing"
    /\ UNCHANGED <<mode, procVars, fileVars, poolVars, db, opsLeft,
                   hist>>

\* except Exception as e: print(f"Warning: ...")
ImportDone ==
    /\ pc = "importing"
    /\ Returned("import")
    /\ warnings' = IF cur.error THEN warnings \cup {"init_table"}
                   ELSE warnings
    /\ cur' = [cur EXCEPT !.pc = "idle"]
    /\ pc' = IF mode = "cli" THEN "main" ELSE "lib"
    /\ UNCHANGED <<mode, argv, api_key, frame, calls, exit_status,
                   touched, fileVars, poolVars, db, opsLeft, hist>>

\* ------------------------------------------- technical_writer_agent.py
\* sys.exit(status), or the interpreter ending on an uncaught exception
\* (status 1) or at the end of the script (status 0).
Exit(status) ==
    /\ pc' = "exited"
    /\ exit_status' = status

\* if len(sys.argv) < 3: ... sys.exit(1)
Main ==
    /\ pc = "main"
    /\ IF argv < 3
       THEN Exit(1)
       ELSE pc' = "agent" /\ UNCHANGED exit_status
    /\ UNCHANGED <<mode, argv, api_key, frame, calls, warnings, touched,
                   fileVars, poolVars, db, cur, opsLeft, hist>>

\* agent = TechnicalWriterAgent()
AgentInit ==
    /\ pc = "agent"
    /\ IF ~api_key
       THEN Exit(1)
       ELSE pc' = "read" /\ UNCHANGED exit_status
    /\ UNCHANGED <<mode, argv, api_key, frame, calls, warnings, touched,
                   fileVars, poolVars, db, cur, opsLeft, hist>>

\* Mutant: FileNotFoundError is reported and process() goes on, with an
\* empty article, instead of returning.
ProcessRead_NoReturn ==
    /\ pc = "read"
    /\ CASE input.state = "unreadable" -> Exit(1) /\ UNCHANGED frame
         [] OTHER ->
               /\ frame' = [frame EXCEPT !.article_content = input.content,
                                         !.process_log = <<>>]
               /\ pc' = "analyst"
               /\ UNCHANGED exit_status
    /\ UNCHANGED <<mode, argv, api_key, calls, warnings, touched,
                   fileVars, poolVars, db, cur, opsLeft, hist>>

\* process(): 0. read the input file.  FileNotFoundError is caught and
\* process() returns, which ends the script; any other error is not caught.
ProcessRead ==
    /\ pc = "read"
    /\ CASE input.state = "missing" -> Exit(0) /\ UNCHANGED frame
         [] input.state = "unreadable" -> Exit(1) /\ UNCHANGED frame
         [] input.state = "readable" ->
               /\ frame' = [frame EXCEPT !.article_content = input.content,
                                         !.process_log = <<>>]
               /\ pc' = "analyst"
               /\ UNCHANGED exit_status
    /\ UNCHANGED <<mode, argv, api_key, calls, warnings, touched,
                   fileVars, poolVars, db, cur, opsLeft, hist>>

\* What the provider does with a request: it raises, or its response has a
\* text.
Responses == [raises : {TRUE}, text : {None}] \cup [raises : {FALSE}, text : Texts]

\* _call_llm(system_prompt, user_prompt, step_name): what the caller gets,
\* or that the process exits.
call_llm(system_prompt, user_prompt, step_name, response) ==
    IF response.raises
    THEN [exits |-> TRUE, text |-> None]
    ELSE [exits |-> FALSE, text |-> response.text]

Call(system_prompt, user_prompt, step_name) ==
    [system_prompt |-> system_prompt, user_prompt |-> user_prompt,
     step_name |-> step_name]

\* ANALYST_USER_PROMPT_TEMPLATE.format(article_content=article_content)
AnalystUserPrompt ==
    Format(ANALYST_USER_PROMPT_TEMPLATE,
           [article_content |-> frame.article_content])

\* Mutant: the Architect's prompt rendered without the Analyst's result.
ArchitectUserPrompt_NoAnalysis ==
    Format(ARCHITECT_USER_PROMPT_TEMPLATE,
           [article_content |-> frame.article_content,
            analysis_content |-> frame.article_content])

\* ARCHITECT_USER_PROMPT_TEMPLATE.format(article_content=...,
\*                                       analysis_content=analysis)
ArchitectUserPrompt ==
    Format(ARCHITECT_USER_PROMPT_TEMPLATE,
           [article_content |-> frame.article_content,
            analysis_content |-> frame.analysis])

\* WRITER_USER_PROMPT_TEMPLATE.format(article_content=...,
\*     analysis_content=analysis, blueprint_content=blueprint)
WriterUserPrompt ==
    Format(WRITER_USER_PROMPT_TEMPLATE,
           [article_content |-> frame.article_content,
            analysis_content |-> frame.analysis,
            blueprint_content |-> frame.blueprint])

\* process(): step 1, the Analyst.
Analyst ==
    /\ pc = "analyst"
    /\ \E response \in Responses :
          LET analyst_user_prompt == AnalystUserPrompt
              r == call_llm(ANALYST_SYSTEM_PROMPT, analyst_user_prompt,
                            "Analyst", response)
          IN  /\ calls' = Append(calls, Call(ANALYST_SYSTEM_PROMPT,
                                             analyst_user_prompt, "Analyst"))
              /\ IF r.exits
                 THEN Exit(1) /\ UNCHANGED frame
                 ELSE /\ frame' = [frame EXCEPT
                             !.analyst_user_prompt = analyst_user_prompt,
                             !.analysis = r.text,
                             !.process_log = @ \o Section1(r.text)]
                      /\ pc' = "architect"
                      /\ UNCHANGED exit_status
    /\ UNCHANGED <<mode, argv, api_key, warnings, touched, fileVars,
                   poolVars, db, cur, opsLeft, hist>>

\* process(): step 2, the Architect.
Architect ==
    /\ pc = "architect"
    /\ \E response \in Responses :
          LET architect_user_prompt == ArchitectUserPrompt
              r == call_llm(ARCHITECT_SYSTEM_PROMPT, architect_user_prompt,
                            "Architect", response)
          IN  /\ calls' = Append(calls, Call(ARCHITECT_SYSTEM_PROMPT,
                                             architect_user_prompt,
                                             "Architect"))
              /\ IF r.exits
                 THEN Exit(1) /\ UNCHANGED frame
                 ELSE /\ frame' = [frame EXCEPT
                             !.architect_user_prompt = architect_user_prompt,
                             !.blueprint = r.text,
                             !.process_log = @ \o Section2(r.text)]
                      /\ pc' = "writer"
                      /\ UNCHANGED exit_status
    /\ UNCHANGED <<mode, argv, api_key, warnings, touched, fileVars,
                   poolVars, db, cur, opsLeft, hist>>

\* process(): step 3, the Writer.
Writer ==
    /\ pc = "writer"
    /\ \E response \in Responses :
          LET writer_user_prompt == WriterUserPrompt
              r == call_llm(WRITER_SYSTEM_PROMPT, writer_user_prompt,
                            "Writer", response)
          IN  /\ calls' = Append(calls, Call(WRITER_SYSTEM_PROMPT,
                                             writer_user_prompt, "Writer"))
              /\ IF r.exits
                 THEN Exit(1) /\ UNCHANGED frame
                 ELSE /\ frame' = [frame EXCEPT
                             !.writer_user_prompt = writer_user_prompt,
                             !.rewritten_article = r.text,
                             !.process_log = @ \o Section3(r.text)]
                      /\ pc' = "open"
                      /\ UNCHANGED exit_status
    /\ UNCHANGED <<mode, argv, api_key, warnings, touched, fileVars,
                   poolVars, db, cur, opsLeft, hist>>

\* with open(output_path, 'w', encoding='utf-8') as f:
\* opening for writing creates the file or truncates it; an error is not caught.
OpenOutput ==
    /\ pc = "open"
    /\ \/ /\ output' = [exists |-> TRUE, content |-> <<>>]
          /\ touched' = TRUE
          /\ pc' = "write"
          /\ UNCHANGED exit_status
       \/ /\ Exit(1)
          /\ UNCHANGED <<output, touched>>
    /\ UNCHANGED <<mode, argv, api_key, frame, calls, warnings, input,
                   poolVars, db, cur, opsLeft, hist>>

\* f.write(process_log) and the file's close: all of it reaches the file, or
\* an error (not caught) stops the write after the first k chunks.
WriteOutput ==
    /\ pc = "write"
    /\ \/ /\ output' = [output EXCEPT !.content = frame.process_log]
          /\ pc' = "insert"
          /\ UNCHANGED exit_status
       \/ \E k \in 0..(Len(frame.process_log) - 1) :
             /\ output' = [output EXCEPT
                              !.content = SubSeq(frame.process_log, 1, k)]
             /\ Exit(1)
    /\ UNCHANGED <<mode, argv, api_key, frame, calls, warnings, touched,
                   input, poolVars, db, cur, opsLeft, hist>>

\* Mutant: the Architect's and the Analyst's results handed over in each
\* other's place.
Record_Swapped ==
    [id |-> 0, created_at |-> 0,
     original_content |-> frame.article_content,
     analyst_prompt |-> FullPrompt(ANALYST_SYSTEM_PROMPT,
                                   frame.analyst_user_prompt),
     analyst_result |-> frame.blueprint,
     architect_prompt |-> FullPrompt(ARCHITECT_SYSTEM_PROMPT,
                                     frame.architect_user_prompt),
     architect_result |-> frame.analysis,
     writer_prompt |-> FullPrompt(WRITER_SYSTEM_PROMPT,
                                  frame.writer_user_prompt),
     writer_result |-> frame.rewritten_article,
     evaluation |-> None]

\* The row process() hands to OptimizationLogRepository.insert.
Record ==
    [id |-> 0, created_at |-> 0,
     original_content |-> frame.article_content,
     analyst_prompt |-> FullPrompt(ANALYST_SYSTEM_PROMPT,
                                   frame.analyst_user_prompt),
     analyst_result |-> frame.analysis,
     architect_prompt |-> FullPrompt(ARCHITECT_SYSTEM_PROMPT,
                                     frame.architect_user_prompt),
     architect_result |-> frame.blueprint,
     writer_prompt |-> FullPrompt(WRITER_SYSTEM_PROMPT,
                                  frame.writer_user_prompt),
     writer_result |-> frame.rewritten_article,
     evaluation |-> None]

\* try: record_id = OptimizationLogRepository.insert(...)
ProcessInsert ==
    /\ pc = "insert"
    /\ cur.pc = "idle"
    /\ cur' = Enter("insert", "agent", Record)
    /\ pc' = "inserting"
    /\ UNCHANGED <<mode, procVars, fileVars, poolVars, db, opsLeft,
                   hist>>

\* Mutant: no try/except around the insert, so its exception ends the
\* process.
ProcessInserted_Uncaught ==
    /\ pc = "inserting"
    /\ Returned("agent")
    /\ IF cur.error
       THEN /\ Exit(1)
            /\ UNCHANGED <<frame, hist>>
       ELSE /\ frame' = [frame EXCEPT !.record_id = cur.result]
            /\ hist' = [hist EXCEPT !.inserted = @ + 1]
            /\ Exit(0)
    /\ cur' = [cur EXCEPT !.pc = "idle"]
    /\ UNCHANGED <<mode, argv, api_key, calls, warnings, touched, fileVars,
                   poolVars, db, opsLeft>>

\* insert returned record_id, or except Exception as e: a warning; then
\* process() returns and the script ends.
ProcessInserted ==
    /\ pc = "inserting"
    /\ Returned("agent")
    /\ IF cur.error
       THEN /\ warnings' = warnings \cup {"insert"}
            /\ UNCHANGED <<frame, hist>>
       ELSE /\ frame' = [frame EXCEPT !.record_id = cur.result]
            /\ hist' = [hist EXCEPT !.inserted = @ + 1]
            /\ UNCHANGED warnings
    /\ cur' = [cur EXCEPT !.pc = "idle"]
    /\ Exit(0)
    /\ UNCHANGED <<mode, argv, api_key, calls, touched, fileVars,
                   poolVars, db, opsLeft>>

\* ------------------------------------------- a program that uses db.py
ClientRow(text) ==
    [id |-> 0, created_at |-> 0, original_content |-> text,
     analyst_prompt |-> FullPrompt("s", "u"), analyst_result |-> text,
     architect_prompt |-> FullPrompt("s", "u"), architect_result |-> text,
     writer_prompt |-> FullPrompt("s", "u"), writer_result |-> text,
     evaluation |-> None]

\* The calls of OptimizationLogRepository's operations.
Requests ==
    {<<"init_table", None>>, <<"count", None>>}
    \cup {<<"insert", ClientRow(t)>> : t \in Texts}
    \cup {<<"find_by_id", i>> : i \in 1..(db.next_id)}
    \cup {<<"find_all", <<l, o>>>> : l \in Limits, o \in Offsets}

\* The program calls one of OptimizationLogRepository's operations.
ClientCall ==
    /\ pc = "lib"
    /\ opsLeft > 0
    /\ cur.pc = "idle"
    /\ \E req \in Requests : cur' = Enter(req[1], "client", req[2])
    /\ pc' = "calling"
    /\ opsLeft' = opsLeft - 1
    /\ UNCHANGED <<mode, procVars, fileVars, poolVars, db, hist>>

\* The operation returns to the program, or raises.
ClientReturn ==
    /\ pc = "calling"
    /\ Returned("client")
    /\ hist' = IF cur.op = "insert" /\ ~cur.error
               THEN [hist EXCEPT !.inserted = @ + 1]
               ELSE hist
    /\ cur' = [cur EXCEPT !.pc = "idle"]
    /\ pc' = "lib"
    /\ UNCHANGED <<mode, procVars, fileVars, poolVars, db, opsLeft>>

\* The program calls ConnectionPool.initialize(config).
ClientInitialize ==
    /\ pc = "lib"
    /\ opsLeft > 0
    /\ \E cfg \in Configs, constructs \in BOOLEAN :
          PoolCall(initialize(cfg, constructs))
    /\ opsLeft' = opsLeft - 1
    /\ UNCHANGED <<mode, pc, procVars, fileVars, db, cur>>

\* The program calls ConnectionPool.get_pool().
ClientGetPool ==
    /\ pc = "lib"
    /\ opsLeft > 0
    /\ \E constructs \in BOOLEAN : PoolCall(get_pool(constructs))
    /\ opsLeft' = opsLeft - 1
    /\ UNCHANGED <<mode, pc, procVars, fileVars, db, cur>>

\* The program calls ConnectionPool.close_all().
ClientCloseAll ==
    /\ pc = "lib"
    /\ opsLeft > 0
    /\ close_all
    /\ opsLeft' = opsLeft - 1
    /\ UNCHANGED <<mode, pc, procVars, fileVars, db, cur, hist>>

\* The program ends.
ClientExit ==
    /\ pc = "lib"
    /\ Exit(0)
    /\ UNCHANGED <<mode, argv, api_key, frame, calls, warnings, touched,
                   fileVars, poolVars, db, cur, opsLeft, hist>>

\* ------------------------------------------------------ specifications
Cursor ==
    \/ CursorGetPool \/ CursorGetConn \/ CursorBody \/ CursorCommit
    \/ CursorRollback \/ CursorPutConn

NextCli ==
    \/ ImportDb \/ ImportDone \/ Cursor
    \/ Main \/ AgentInit \/ ProcessRead \/ Analyst \/ Architect \/ Writer
    \/ OpenOutput \/ WriteOutput \/ ProcessInsert \/ ProcessInserted

NextLib ==
    \/ ImportDb \/ ImportDone \/ Cursor
    \/ ClientCall \/ ClientReturn \/ ClientInitialize \/ ClientGetPool
    \/ ClientCloseAll \/ ClientExit

SpecCli == InitCli /\ [][NextCli]_vars
SpecLib == InitLib /\ [][NextLib]_vars

\* ================================================================ claims
\* The stages whose result process() has stored.
AllReturned ==
    /\ frame.analysis \in Texts
    /\ frame.blueprint \in Texts
    /\ frame.rewritten_article \in Texts

\* A _call_llm call was made and did not return.
AdapterFailed ==
    /\ pc = "exited"
    /\ Len(calls) > Cardinality({f \in {"analysis", "blueprint",
                                        "rewritten_article"} :
                                    frame[f] \in Texts})

\* The rows the process found in the table when it started.
RowsOfEarlierRuns == [i \in 1..hist.count0 |-> PriorRow(i, input.content)]

\* The output file of a run whose three stages gave the results in frame.
WholeArtifact ==
    [exists |-> TRUE,
     content |-> <<Heading1, frame.analysis, Rule,
                   Heading2, frame.blueprint, Rule,
                   Heading3, frame.rewritten_article>>]

\* C1: the calls of _call_llm are a prefix of Analyst, Architect, Writer,
\* each made once, the input file being readable; the Architect's prompt is
\* rendered from the article and the analysis the Analyst returned, the
\* Writer's from the article, the analysis and the blueprint the Architect
\* returned; the output is written and the insert entered only after the
\* Writer returned.
C1_Calls ==
    /\ Len(calls) <= 3
    /\ \A i \in 1..Len(calls) :
          /\ calls[i].step_name = <<"Analyst", "Architect", "Writer">>[i]
          /\ calls[i].system_prompt =
                <<ANALYST_SYSTEM_PROMPT, ARCHITECT_SYSTEM_PROMPT,
                  WRITER_SYSTEM_PROMPT>>[i]
    /\ calls # <<>> => input.state = "readable"
    /\ Len(calls) >= 1 =>
          calls[1].user_prompt =
             Format(ANALYST_USER_PROMPT_TEMPLATE,
                    [article_content |-> input.content])
    /\ Len(calls) >= 2 =>
          /\ frame.analysis \in Texts
          /\ calls[2].user_prompt =
                Format(ARCHITECT_USER_PROMPT_TEMPLATE,
                       [article_content |-> input.content,
                        analysis_content |-> frame.analysis])
    /\ Len(calls) >= 3 =>
          /\ frame.blueprint \in Texts
          /\ calls[3].user_prompt =
                Format(WRITER_USER_PROMPT_TEMPLATE,
                       [article_content |-> input.content,
                        analysis_content |-> frame.analysis,
                        blueprint_content |-> frame.blueprint])
    /\ (touched \/ cur.caller = "agent") =>
          Len(calls) = 3 /\ frame.rewritten_article \in Texts

\* C1: the stages follow START -> ANALYZING -> ARCHITECTING -> WRITING ->
\* PERSISTING -> DONE; a step never skips, repeats or reorders one, and each
\* stage step makes exactly one call.
C1_Edges ==
    /\ pc' # pc =>
          \/ pc' = "exited"
          \/ <<pc, pc'>> \in {<<"import", "importing">>,
                              <<"importing", "main">>, <<"main", "agent">>,
                              <<"agent", "read">>, <<"read", "analyst">>,
                              <<"analyst", "architect">>,
                              <<"architect", "writer">>,
                              <<"writer", "open">>, <<"open", "write">>,
                              <<"write", "insert">>,
                              <<"insert", "inserting">>}
    /\ Len(calls') = Len(calls) + (IF pc \in {"analyst", "architect", "writer"}
                                      /\ pc' # pc
                                   THEN 1 ELSE 0)

C1_Pipeline == []C1_Calls /\ [][C1_Edges]_vars

C1_Witness ==
    /\ pc = "exited"
    /\ exit_status = 0
    /\ Len(calls) = 3
    /\ frame.record_id > 0
    /\ frame.analysis = "T"
    /\ frame.blueprint = ""

\* C2: the output path differs from what the process found, or a row was
\* added to those of earlier runs, only if all three stages returned; a
\* process that ended on a missing input or on a failed _call_llm left the
\* output path as it found it and added no row.
C2_AllOrNothing ==
    /\ (touched \/ output # hist.output0) => AllReturned
    /\ db.rows # RowsOfEarlierRuns => AllReturned
    /\ (pc = "exited" /\ (input.state = "missing" \/ AdapterFailed)) =>
          /\ ~touched
          /\ output = hist.output0
          /\ db.rows = RowsOfEarlierRuns

C2_Witness ==
    /\ AdapterFailed
    /\ Len(calls) = 3
    /\ hist.output0.exists
    /\ hist.count0 = 1

\* C3: when the insert of PERSISTING fails, the output file holds the whole
\* artifact and keeps holding it, a warning is printed, no record_id is
\* shown and the process ends with exit status 0.
C3_InsertFailure ==
    /\ cur.caller = "agent" => AllReturned /\ output = WholeArtifact
    /\ (cur.caller = "agent" /\ cur.error /\ pc = "exited") =>
          /\ exit_status = 0
          /\ "insert" \in warnings
          /\ frame.record_id = 0
          /\ db.rows = RowsOfEarlierRuns

\* The insert's commit fails after all three stages and the write succeeded.
C3_Witness ==
    /\ pc = "exited"
    /\ cur.caller = "agent"
    /\ cur.error
    /\ cur.events = <<"getconn", "commit", "rollback", "putconn">>

\* The same with a pool that could not be constructed, neither at import nor
\* for the insert.
C3_WitnessNoPool ==
    /\ pc = "exited"
    /\ cur.caller = "agent"
    /\ cur.error
    /\ instance = 0

\* C4: the process ends with exit status 1 when it has fewer than two
\* positional arguments, no API credential, a missing input file or a
\* failed _call_llm.
C4_ExitStatus ==
    (/\ pc = "exited"
     /\ \/ argv < 3
        \/ ~api_key
        \/ input.state = "missing"
        \/ AdapterFailed)
    => exit_status = 1

\* C6: whenever the process is not inside the write itself, the output path
\* either is as the process found it or holds the whole artifact.
C6_AtomicWrite ==
    pc # "write" =>
       \/ ~touched /\ output = hist.output0
       \/ AllReturned /\ output = WholeArtifact

\* C7: no stage result stored as analysis, blueprint or rewritten_article
\* is the empty text.
C7_NonEmpty ==
    /\ frame.analysis # ""
    /\ frame.blueprint # ""
    /\ frame.rewritten_article # ""

C5_Cursor ==
    /\ \A i \in 1..Len(pools) :
          pools[i].used =
             IF i = instance
                /\ cur.pc \in {"body", "commit", "rollback", "putconn"}
             THEN 1 ELSE 0
    /\ (cur.pc \in {"done", "idle"} /\ cur.op # None) =>
          \/ cur.events = <<>> /\ cur.error
          \/ /\ cur.events = <<"getconn", "commit", "putconn">>
             /\ ~cur.bodyError /\ ~cur.error
          \/ /\ cur.events = <<"getconn", "rollback", "putconn">>
             /\ cur.bodyError /\ cur.error
          \/ /\ cur.events = <<"getconn", "commit", "rollback", "putconn">>
             /\ ~cur.bodyError /\ cur.error

C5_Witness ==
    /\ pc = "lib"
    /\ cur.op = "find_all"
    /\ cur.events = <<"getconn", "commit", "rollback", "putconn">>
    /\ instance # 0
    /\ pools[instance].used = 0

\* C9: between operations the table holds the rows it held at the start,
\* followed by one row for each insert that returned an identifier, and a
\* count() that returns gives exactly that number.
C9_Count ==
    /\ pc \in {"lib", "exited"} =>
          Len(db.rows) = hist.count0 + hist.inserted
    /\ (pc = "calling" /\ cur.pc = "done") =>
          Len(db.rows) = hist.count0 + hist.inserted
                         + (IF cur.op = "insert" /\ ~cur.error THEN 1 ELSE 0)
    /\ SubSeq(db.rows, 1, hist.count0) = RowsOfEarlierRuns
    /\ (cur.op = "count" /\ cur.pc \in {"done", "idle"} /\ ~cur.error) =>
          cur.result = hist.count0 + hist.inserted

\* An insert that returned, an insert whose transaction was rolled back
\* after its statement had run, then a count.
C9_Witness ==
    /\ pc = "lib"
    /\ cur.op = "count"
    /\ ~cur.error
    /\ cur.result = hist.count0 + 1
    /\ hist.inserted = 1
    /\ db.next_id = hist.count0 + 3

\* C10: no pool exists before the first initialize/get_pool call; at most
\* one pool is live, and it is _instance; the stored configuration is the
\* one the live pool was constructed with.
C10_Pools ==
    LET live == {i \in 1..Len(pools) : ~pools[i].closed}
    IN  /\ Len(pools) > 0 => hist.poolCalls > 0
        /\ Cardinality(live) <= 1
        /\ live = IF instance = 0 THEN {} ELSE {instance}
        /\ instance # 0 => config = pools[instance].config

\* C10: an initialize/get_pool call on a live pool constructs nothing and
\* changes neither the pool nor the configuration; one without a live pool
\* calls the constructor, and leaves no live pool if that raises; close_all
\* leaves no live pool; nothing else constructs a pool.
C10_Calls ==
    LET called == hist'.poolCalls = hist.poolCalls + 1
    IN  /\ (called /\ instance # 0) =>
              /\ UNCHANGED <<instance, config, pools>>
              /\ hist'.attempts = hist.attempts
        /\ (called /\ instance = 0) =>
              /\ hist'.attempts = hist.attempts + 1
              /\ \/ instance' = 0 /\ pools' = pools
                 \/ /\ instance' = Len(pools) + 1
                    /\ Len(pools') = Len(pools) + 1
                    /\ SubSeq(pools', 1, Len(pools)) = pools
        /\ ClientCloseAll =>
              instance' = 0 /\ \A i \in 1..Len(pools') : pools'[i].closed
        /\ Len(pools') # Len(pools) => called

C10_Singleton == []C10_Pools /\ [][C10_Calls]_vars

\* A pool constructed at import, closed, and a second one constructed by
\* initialize with a configuration of the caller's.
C10_Witness ==
    /\ Len(pools) = 2
    /\ pools[1].closed
    /\ pools[1].config = get_config
    /\ instance = 2
    /\ config = "cfgA"

====
